---- MODULE Spec2Model ----
(***************************************************************************)
(* Model of the PaymasterDemo component (src/unnamed/part_000): the three  *)
(* asynchronous handlers connectWallet, setupAccount and sendTransaction,  *)
(* the wallet's accountsChanged listener, the log controls, and the        *)
(* encodePacked layout of the paymaster payload.                           *)
(*                                                                         *)
(* Every action is one synchronous run of handler code: from a click or    *)
(* the settling of an awaited call up to the next await (or the end of     *)
(* the handler, catch and finally blocks included).  A handler reads the   *)
(* React state through the closure of the render in which it was clicked,  *)
(* so the values it captured are kept in its locals (su, tx).              *)
(*                                                                         *)
(* Spec is the component with its environment (the wallet, the signer, the *)
(* bundler, the token contract's permit nonces).  SpecLive adds that every *)
(* awaited call returns or throws.  SpecDirect calls setupAccount and      *)
(* sendTransaction also where their buttons are disabled.  SpecCodec       *)
(* applies the payload encoder to inputs of its own.                       *)
(***************************************************************************)
EXTENDS Integers, Sequences, FiniteSets, TLC

VARIABLES
    \* React state of the component (lines 75-87)
    recipient, amount, loading, status, logs, accountInfo, walletClient, isConnected,
    \* the environment: the browser wallet, the signer, the bundler
    hasEthereum, walletAccount, signerCap, bundlerPool,
    \* (bundlerPool: the hashes of the operations the bundler has taken)
    \* position of each asynchronous handler, and its locals
    pcConnect, pcSetup, pcSend, su, tx,
    \* the external calls settled so far by the current sendTransaction attempt
    calls,
    \* inputs and outputs of the payload encoder when exercised on its own
    codec,
    \* the token contract's permit nonce of each smart account
    tokenNonces

vars == <<recipient, amount, loading, status, logs, accountInfo, walletClient,
          isConnected, hasEthereum, walletAccount, signerCap, bundlerPool,
          pcConnect, pcSetup, pcSend, su, tx, calls, codec, tokenNonces>>

uiVars == <<recipient, amount, loading, status, logs, accountInfo, walletClient, isConnected>>

\* ------------------------------------------------------------------ bounds

\* Longest log to which connectWallet or an early return may still append.
MaxLog == 0
\* Most user operations the bundler accepts in one behaviour.
MaxPool == 1
\* Longest permit signature, in bytes, the signer returns.
MaxSigLen == 2
\* Highest permit nonce the token contract reaches for an account.
MaxNonce == 1

\* --------------------------------------------------------------- constants

Null == <<>>
Some(x) == <<x>>
Val(o) == o[1]

\* 0x75faf114eafb1BDbe2F0316DF893fd58CE46AA4d
USDC_ADDRESS ==
    <<117, 250, 241, 20, 234, 251, 27, 219, 226, 240,
      49, 109, 248, 147, 253, 88, 206, 70, 170, 77>>

\* 0x3BA9A96eE3eFf3A69E2B18886AcF52027EFF8966
PAYMASTER_V08_ADDRESS ==
    <<59, 169, 169, 110, 227, 239, 243, 166, 158, 43,
      24, 136, 106, 207, 82, 2, 126, 255, 137, 102>>

permitAmount == 10000000

DefaultRecipient == "0x5732e1bccaeb161e3b93d126010042b0f1b9cfc9"
DefaultAmount == "0.1"

Owners == {"0xOwnerA", "0xOwnerB"}
Undefined == "undefined"

\* The smart accounts of the owners.
SmartAccounts == {"0xSmartA", "0xSmartB"}

\* ------------------------------------------------------------ encodePacked

\* EncodeUint keeping only the lowest byte of the value: the higher bytes of
\* the word are left zero.
EncodeUintLowByteOnly(v, size) ==
    IF size = 0 THEN <<>>
    ELSE [i \in 1..size |-> IF i = size THEN v % 256 ELSE 0]

\* numberToHex(value, {size}): big-endian, left-padded to size bytes.
RECURSIVE EncodeUint(_, _)
EncodeUint(v, size) ==
    IF size = 0 THEN <<>>
    ELSE Append(EncodeUint(v \div 256, size - 1), v % 256)

EncodeAddress(a) == a

EncodeBytes(b) == b

\* EncodePaymasterData with the signature laid out as encodeAbiParameters
\* would: its length in a 32-byte word before its bytes.
EncodePaymasterDataWithLength(mode, token, amt, sig) ==
    EncodeUint(mode, 1) \o EncodeAddress(token) \o EncodeUint(amt, 32)
        \o EncodeUint(Len(sig), 32) \o EncodeBytes(sig)

\* encodePacked(['uint8', 'address', 'uint256', 'bytes'], [mode, token, amt, sig])
EncodePaymasterData(mode, token, amt, sig) ==
    EncodeUint(mode, 1) \o EncodeAddress(token) \o EncodeUint(amt, 32) \o EncodeBytes(sig)

\* ------------------------------------------------------- component helpers

\* A log entry without its id and timestamp; a message is its text followed
\* by the interpolated values.
addLog(l, type, message) == Append(l, [type |-> type, message |-> message])

updateStatus(type, message) == Some([type |-> type, message |-> message])

\* A thrown value: an Error carrying a message, or any other value.
Err(m) == [isError |-> TRUE, message |-> m]
NonError == [isError |-> FALSE, message |-> ""]

\* error instanceof Error ? error.message : 'Unknown error'
errorMsg(e) == IF e.isError THEN e.message ELSE "Unknown error"

\* What an awaited call may reject with.
FailureMessage(call) ==
    CASE call = "eth_requestAccounts" -> "User rejected the connection request."
      [] call = "getAddresses" -> "eth_accounts request failed."
      [] call = "toMetaMaskSmartAccount" -> "Smart account could not be resolved."
      [] call = "name" -> "The contract function name reverted."
      [] call = "version" -> "The contract function version reverted."
      [] call = "nonces" -> "The contract function nonces reverted."
      [] call = "signTypedData" -> "User rejected the signing request."
      [] call = "pimlico_getUserOperationGasPrice" -> "Gas price request failed."
      [] call = "eth_sendUserOperation" -> "UserOperation rejected by the bundler."
      [] call = "waitForUserOperationReceipt" ->
            "Timed out while waiting for User Operation."
      [] OTHER -> "Request failed."

Throws(call) == {Err(FailureMessage(call)), NonError}

\* The README's report: a signer without direct typed-data signing rejects.
AccountNotFound ==
    Err("Could not find an Account to execute with this Action.")

NoAccount == ""

\* walletClient.getAddresses() followed by addresses[0]
FirstAddress == IF walletAccount = NoAccount THEN Undefined ELSE walletAccount

\* The counterfactual address: a function of implementation, deploy
\* parameters and salt only.
CounterfactualAddress(implementation, deployParams, deploySalt) ==
    IF implementation = "Hybrid" /\ deploySalt = "0x"
       /\ deployParams[2] = <<>> /\ deployParams[3] = <<>> /\ deployParams[4] = <<>>
    THEN CASE deployParams[1] = <<"0xOwnerA">> -> "0xSmartA"
           [] deployParams[1] = <<"0xOwnerB">> -> "0xSmartB"
           [] OTHER -> "0xSmartOther"
    ELSE "0xSmartOther"

\* The arguments setupAccount resolves the smart account with (lines 183-189).
SetupAccountParams(owner) ==
    [implementation |-> "Hybrid",
     deployParams |-> <<<<owner>>, <<>>, <<>>, <<>>>>,
     deploySalt |-> "0x"]

\* SendAccountParams with a salt of its own.
SendAccountParamsOtherSalt(owner) ==
    [implementation |-> "Hybrid",
     deployParams |-> <<<<owner>>, <<>>, <<>>, <<>>>>,
     deploySalt |-> "0x01"]

\* The arguments sendTransaction resolves the smart account with (lines 296-302).
SendAccountParams(owner) ==
    [implementation |-> "Hybrid",
     deployParams |-> <<<<owner>>, <<>>, <<>>, <<>>>>,
     deploySalt |-> "0x"]

\* toMetaMaskSmartAccount({implementation, deployParams, deploySalt, ...}): the
\* resolved address, or nothing when the owner is no address.
toMetaMaskSmartAccount(params) ==
    IF params.deployParams[1] = <<Undefined>> THEN Null
    ELSE Some(CounterfactualAddress(params.implementation, params.deployParams,
                                    params.deploySalt))

NoSetup == [walletClient |-> Null, owner |-> ""]

\* Locals of a sendTransaction attempt, with what it reported at its end.
NoTx == [walletClient |-> Null, recipient |-> "", amount |-> "", owner |-> "",
         smartAccount |-> "", permitOwner |-> "", nonce |-> -1,
         permitSignature |-> Null,
         paymasterData |-> Null, fees |-> "", userOp |-> Null, uoHash |-> 0,
         receipt |-> Null, poolAtStart |-> 0, failedStage |-> "", outcome |-> Null]

CodecIdle == [pc |-> "idle", a |-> Null, b |-> Null, pa |-> Null, pb |-> Null, da |-> Null]

\* ------------------------------------------------------------------- Init

ComponentInit ==
    /\ recipient = DefaultRecipient
    /\ amount = DefaultAmount
    /\ loading = FALSE
    /\ status = Null
    /\ logs = <<>>
    /\ accountInfo = Null
    /\ walletClient = Null
    /\ isConnected = FALSE
    /\ hasEthereum \in BOOLEAN
    /\ walletAccount = NoAccount
    /\ signerCap \in {"direct", "delegated"}
    /\ bundlerPool = <<>>
    /\ pcConnect = "idle"
    /\ pcSetup = "idle"
    /\ pcSend = "idle"
    /\ su = NoSetup
    /\ tx = NoTx
    /\ calls = <<>>
    /\ tokenNonces = [a \in SmartAccounts |-> 0]

Init == ComponentInit /\ codec = CodecIdle

\* ------------------------------------------------------------ environment

\* The wallet exposes another account list; the listener of lines 109-115 runs.
handleAccountsChanged(accounts) ==
    IF Len(accounts) = 0
    THEN /\ isConnected' = FALSE
         /\ walletClient' = Null
         /\ accountInfo' = Null
    ELSE UNCHANGED <<isConnected, walletClient, accountInfo>>

AccountsChanged ==
    /\ hasEthereum
    /\ \E a \in (Owners \cup {NoAccount}) \ {walletAccount} :
          /\ walletAccount' = a
          /\ handleAccountsChanged(IF a = NoAccount THEN <<>> ELSE <<a>>)
    /\ UNCHANGED <<recipient, amount, loading, status, logs, hasEthereum, signerCap,
                   bundlerPool, pcConnect, pcSetup, pcSend, su, tx, calls, codec, tokenNonces>>

\* The Clear button (line 496) is never disabled.
clearLogs ==
    /\ logs # <<>>
    /\ logs' = <<>>
    /\ UNCHANGED <<recipient, amount, loading, status, accountInfo, walletClient,
                   isConnected, hasEthereum, walletAccount, signerCap, bundlerPool,
                   pcConnect, pcSetup, pcSend, su, tx, calls, codec, tokenNonces>>

setRecipient ==
    /\ \E r \in {"", DefaultRecipient} \ {recipient} : recipient' = r
    /\ UNCHANGED <<amount, loading, status, logs, accountInfo, walletClient,
                   isConnected, hasEthereum, walletAccount, signerCap, bundlerPool,
                   pcConnect, pcSetup, pcSend, su, tx, calls, codec, tokenNonces>>

\* The owner who also runs the flow from a second session.
OtherSessionOwner == "0xOwnerA"

\* While an attempt of the same owner is in flight here, the other session
\* gets a permit of the owner's smart account executed: the token contract
\* moves on to the account's next nonce.
OtherSessionPermit ==
    /\ tx.owner = OtherSessionOwner
    /\ tx.smartAccount \in SmartAccounts
    /\ tokenNonces[tx.smartAccount] < MaxNonce
    /\ tokenNonces' = [tokenNonces EXCEPT ![tx.smartAccount] = @ + 1]
    /\ UNCHANGED <<recipient, amount, loading, status, logs, accountInfo, walletClient,
                   isConnected, hasEthereum, walletAccount, signerCap, bundlerPool,
                   pcConnect, pcSetup, pcSend, su, tx, calls, codec>>

\* ---------------------------------------------------------- connectWallet

ConnectButtonEnabled == ~isConnected /\ ~loading

\* catch and finally of connectWallet (lines 151-157)
ConnectCatch(e) ==
    /\ logs' = addLog(logs, "error", <<"Failed to connect: ", errorMsg(e)>>)
    /\ status' = updateStatus("error", <<"Connection failed: ", errorMsg(e)>>)
    /\ loading' = FALSE
    /\ pcConnect' = "idle"
    /\ UNCHANGED <<walletClient, isConnected>>

connectWallet ==
    /\ ConnectButtonEnabled
    /\ pcConnect = "idle"
    /\ Len(logs) <= MaxLog
    /\ IF ~hasEthereum
       THEN /\ status' = updateStatus("error", <<"MetaMask is not installed">>)
            /\ logs' = addLog(logs, "error", <<"MetaMask not found. Please install MetaMask.">>)
            /\ UNCHANGED <<loading, pcConnect>>
       ELSE /\ loading' = TRUE
            /\ logs' = addLog(logs, "info", <<"Connecting to MetaMask...">>)
            /\ pcConnect' = "eth_requestAccounts"
            /\ UNCHANGED status
    /\ UNCHANGED <<recipient, amount, accountInfo, walletClient, isConnected,
                   hasEthereum, walletAccount, signerCap, bundlerPool, pcSetup,
                   pcSend, su, tx, calls, codec, tokenNonces>>

\* await window.ethereum.request({ method: 'eth_requestAccounts' }) settles
ConnectRequestAccounts ==
    /\ pcConnect = "eth_requestAccounts"
    /\ \/ /\ \E a \in Owners :
                /\ walletAccount = NoAccount \/ walletAccount = a
                /\ walletAccount' = a
          /\ pcConnect' = "getAddresses"
          /\ UNCHANGED <<loading, status, logs, walletClient, isConnected>>
       \/ /\ \E e \in Throws("eth_requestAccounts") : ConnectCatch(e)
          /\ UNCHANGED walletAccount
    /\ UNCHANGED <<recipient, amount, accountInfo, hasEthereum, signerCap,
                   bundlerPool, pcSetup, pcSend, su, tx, calls, codec, tokenNonces>>

\* await client.getAddresses() settles
ConnectGetAddresses ==
    /\ pcConnect = "getAddresses"
    /\ \/ /\ logs' = addLog(logs, "success", <<"Connected to MetaMask: ", FirstAddress>>)
          /\ walletClient' = Some("walletClient")
          /\ isConnected' = TRUE
          /\ status' = updateStatus("success", <<"MetaMask connected successfully">>)
          /\ loading' = FALSE
          /\ pcConnect' = "idle"
       \/ \E e \in Throws("getAddresses") : ConnectCatch(e)
    /\ UNCHANGED <<recipient, amount, accountInfo, hasEthereum, walletAccount,
                   signerCap, bundlerPool, pcSetup, pcSend, su, tx, calls, codec, tokenNonces>>

\* ----------------------------------------------------------- setupAccount

\* SetupButtonEnabled with disabled={!isConnected}.
SetupButtonEnabledWhileLoading == isConnected

\* disabled={loading || !isConnected} (line 471)
SetupButtonEnabled == ~loading /\ isConnected

\* SetupCatch without the finally block.
SetupCatchWithoutFinally(e) ==
    /\ logs' = addLog(logs, "error", <<"Account setup failed: ", errorMsg(e)>>)
    /\ status' = updateStatus("error", <<"Error: ", errorMsg(e)>>)
    /\ pcSetup' = "idle"
    /\ su' = NoSetup
    /\ UNCHANGED <<accountInfo, loading>>

\* catch and finally of setupAccount (lines 208-214)
SetupCatch(e) ==
    /\ logs' = addLog(logs, "error", <<"Account setup failed: ", errorMsg(e)>>)
    /\ status' = updateStatus("error", <<"Error: ", errorMsg(e)>>)
    /\ loading' = FALSE
    /\ pcSetup' = "idle"
    /\ su' = NoSetup
    /\ UNCHANGED accountInfo

\* SetupAccountCall without the check of lines 161-165.
SetupAccountCallUnchecked ==
    /\ pcSetup = "idle"
    /\ loading' = TRUE
    /\ logs' = addLog(addLog(addLog(<<>>,
                  "info", <<"Setting up MetaMask smart account...">>),
                  "info", <<"Creating public client for Arbitrum Sepolia">>),
                  "info", <<"Getting MetaMask addresses">>)
    /\ status' = updateStatus("info", <<"Setting up account...">>)
    /\ su' = [walletClient |-> walletClient, owner |-> ""]
    /\ pcSetup' = "getAddresses"
    /\ UNCHANGED <<recipient, amount, accountInfo, walletClient, isConnected,
                   hasEthereum, walletAccount, signerCap, bundlerPool, pcConnect,
                   pcSend, tx, calls, codec, tokenNonces>>

\* A call of setupAccount, up to its first await (lines 160-178).
SetupAccountCall ==
    /\ pcSetup = "idle"
    /\ IF ~isConnected \/ walletClient = Null
       THEN /\ status' = updateStatus("error", <<"Please connect MetaMask first">>)
            /\ logs' = addLog(logs, "error", <<"MetaMask wallet not connected">>)
            /\ UNCHANGED <<loading, pcSetup, su>>
       ELSE /\ loading' = TRUE
            /\ logs' = addLog(addLog(addLog(<<>>,
                          "info", <<"Setting up MetaMask smart account...">>),
                          "info", <<"Creating public client for Arbitrum Sepolia">>),
                          "info", <<"Getting MetaMask addresses">>)
            /\ status' = updateStatus("info", <<"Setting up account...">>)
            /\ su' = [walletClient |-> walletClient, owner |-> ""]
            /\ pcSetup' = "getAddresses"
    /\ UNCHANGED <<recipient, amount, accountInfo, walletClient, isConnected,
                   hasEthereum, walletAccount, signerCap, bundlerPool, pcConnect,
                   pcSend, tx, calls, codec, tokenNonces>>

\* The Setup Account button is clicked.
setupAccount ==
    /\ SetupButtonEnabled
    /\ SetupAccountCall

\* await walletClient.getAddresses() settles (line 178)
SetupGetAddresses ==
    /\ pcSetup = "getAddresses"
    /\ \/ /\ su' = [su EXCEPT !.owner = FirstAddress]
          /\ logs' = addLog(addLog(logs,
                        "success", <<"Owner address: ", FirstAddress>>),
                        "info", <<"Creating MetaMask smart account">>)
          /\ pcSetup' = "toMetaMaskSmartAccount"
          /\ UNCHANGED <<loading, status, accountInfo>>
       \/ \E e \in Throws("getAddresses") : SetupCatch(e)
    /\ UNCHANGED <<recipient, amount, walletClient, isConnected, hasEthereum,
                   walletAccount, signerCap, bundlerPool, pcConnect, pcSend, tx,
                   calls, codec, tokenNonces>>

\* await toMetaMaskSmartAccount(...) settles (line 183)
SetupToSmartAccount ==
    /\ pcSetup = "toMetaMaskSmartAccount"
    /\ \/ /\ toMetaMaskSmartAccount(SetupAccountParams(su.owner)) # Null
          /\ LET address == Val(toMetaMaskSmartAccount(SetupAccountParams(su.owner))) IN
             /\ logs' = addLog(addLog(addLog(addLog(addLog(addLog(addLog(logs,
                           "success", <<"MetaMask smart account created: ", address>>),
                           "info", <<"Smart Account Details:">>),
                           "info", <<"   Address: ", address>>),
                           "info", <<"   Implementation: ", "Hybrid">>),
                           "info", <<"   Deploy Salt: 0x">>),
                           "info", <<"   Owner: ", su.owner>>),
                           "success", <<"Account setup complete">>)
             /\ accountInfo' = Some([address |-> address, smartAccountBalance |-> "0",
                                     ownerAddress |-> su.owner, ownerBalance |-> "0"])
          /\ status' = updateStatus("success", <<"Account ready for transactions">>)
          /\ loading' = FALSE
          /\ pcSetup' = "idle"
          /\ su' = NoSetup
       \/ \E e \in Throws("toMetaMaskSmartAccount") : SetupCatch(e)
    /\ UNCHANGED <<recipient, amount, walletClient, isConnected, hasEthereum,
                   walletAccount, signerCap, bundlerPool, pcConnect, pcSend, tx,
                   calls, codec, tokenNonces>>

\* -------------------------------------------------------- sendTransaction

SendButtonEnabled == ~loading /\ isConnected /\ accountInfo # Null

\* The pipeline stage an awaited call belongs to.
StageOf(call) ==
    CASE call = "getAddresses" -> "address lookup"
      [] call = "toMetaMaskSmartAccount" -> "account resolution"
      [] call \in {"name", "version", "nonces"} -> "chain read"
      [] call = "signTypedData" -> "signing"
      [] call = "pimlico_getUserOperationGasPrice" -> "fee query"
      [] call = "eth_sendUserOperation" -> "submission"
      [] call = "waitForUserOperationReceipt" -> "receipt wait"
      [] OTHER -> "unknown"

Settled(call, ev) == [call |-> call, ev |-> ev]

\* The signatures the signer may return: 1 to MaxSigLen bytes.
Signatures == {[i \in 1..n |-> (i * 85) % 256] : n \in 1..MaxSigLen}

\* token.read.nonces([account.address])
TokenNonce(address) ==
    IF address \in DOMAIN tokenNonces THEN tokenNonces[address] ELSE 0

\* updateStatus('error', `Transaction failed: ${errorMsg}`) (lines 397-399)
FailureStatus(e) == updateStatus("error", <<"Transaction failed: ", errorMsg(e)>>)

\* catch and finally of sendTransaction (lines 396-402), entered because the
\* awaited call rejected with e.
SendCatch(call, e) ==
    /\ logs' = addLog(logs, "error", <<"Transaction failed: ", errorMsg(e)>>)
    /\ status' = FailureStatus(e)
    /\ loading' = FALSE
    /\ pcSend' = "idle"
    /\ calls' = Append(calls, Settled(call, "fail"))
    /\ tx' = [NoTx EXCEPT !.uoHash = tx.uoHash,
                          !.poolAtStart = tx.poolAtStart,
                          !.failedStage = StageOf(call),
                          !.outcome = FailureStatus(e)]
    /\ UNCHANGED bundlerPool

\* The check of lines 275-279 fails.
SendInputsMissing == ~isConnected \/ walletClient = Null \/ recipient = "" \/ amount = ""

\* A call of sendTransaction, up to its first await (lines 274-292).
SendTransactionCall ==
    /\ pcSend = "idle"
    /\ IF SendInputsMissing
       THEN /\ status' = updateStatus("error",
                            <<"Please connect MetaMask and fill in all fields">>)
            /\ logs' = addLog(logs, "error",
                            <<"MetaMask connection and all fields are required">>)
            /\ UNCHANGED <<loading, pcSend, tx, calls>>
       ELSE /\ loading' = TRUE
            /\ logs' = addLog(addLog(addLog(<<>>,
                          "info", <<"Starting USDC transfer with paymaster...">>),
                          "info", <<"Setting up blockchain connection">>),
                          "info", <<"Getting MetaMask addresses">>)
            /\ status' = updateStatus("info", <<"Initializing transaction...">>)
            /\ tx' = [NoTx EXCEPT !.walletClient = walletClient,
                                  !.recipient = recipient,
                                  !.amount = amount,
                                  !.poolAtStart = Len(bundlerPool)]
            /\ calls' = <<>>
            /\ pcSend' = "getAddresses"
    /\ UNCHANGED <<recipient, amount, accountInfo, walletClient, isConnected,
                   hasEthereum, walletAccount, signerCap, bundlerPool, pcConnect,
                   pcSetup, su, codec, tokenNonces>>

\* The Send Transaction button is clicked.
sendTransaction ==
    /\ SendButtonEnabled
    /\ SendInputsMissing => Len(logs) <= MaxLog
    /\ SendTransactionCall

\* SendGetAddresses going on to signPermit without resolving the account.
SendGetAddressesSkippingResolution ==
    /\ pcSend = "getAddresses"
    /\ \/ /\ tx' = [tx EXCEPT !.owner = FirstAddress]
          /\ logs' = addLog(logs, "info", <<"Creating MetaMask smart account">>)
          /\ calls' = Append(calls, Settled("getAddresses", "ok"))
          /\ pcSend' = "name"
          /\ UNCHANGED <<loading, status, bundlerPool>>
       \/ \E e \in Throws("getAddresses") : SendCatch("getAddresses", e)
    /\ UNCHANGED <<recipient, amount, accountInfo, walletClient, isConnected,
                   hasEthereum, walletAccount, signerCap, pcConnect, pcSetup, su,
                   codec, tokenNonces>>

\* await walletClient.getAddresses() settles (line 292)
SendGetAddresses ==
    /\ pcSend = "getAddresses"
    /\ \/ /\ tx' = [tx EXCEPT !.owner = FirstAddress]
          /\ logs' = addLog(logs, "info", <<"Creating MetaMask smart account">>)
          /\ calls' = Append(calls, Settled("getAddresses", "ok"))
          /\ pcSend' = "toMetaMaskSmartAccount"
          /\ UNCHANGED <<loading, status, bundlerPool>>
       \/ \E e \in Throws("getAddresses") : SendCatch("getAddresses", e)
    /\ UNCHANGED <<recipient, amount, accountInfo, walletClient, isConnected,
                   hasEthereum, walletAccount, signerCap, pcConnect, pcSetup, su, codec, tokenNonces>>

\* await toMetaMaskSmartAccount(...) settles (line 296); lines 303-314 and the
\* entry of signPermit up to token.read.name() follow.
SendToSmartAccount ==
    /\ pcSend = "toMetaMaskSmartAccount"
    /\ \/ /\ toMetaMaskSmartAccount(SendAccountParams(tx.owner)) # Null
          /\ LET address == Val(toMetaMaskSmartAccount(SendAccountParams(tx.owner))) IN
             /\ tx' = [tx EXCEPT !.smartAccount = address]
             /\ logs' = addLog(addLog(addLog(addLog(addLog(logs,
                           "success", <<"MetaMask smart account: ", address>>),
                           "info", <<"Preparing transfer amount">>),
                           "info", <<"Transfer amount: ", tx.amount, " USDC">>),
                           "info", <<"Creating EIP-2612 permit signature...">>),
                           "info", <<"Permit amount: ", "10", " USDC">>)
          /\ status' = updateStatus("info", <<"Creating permit signature...">>)
          /\ calls' = Append(calls, Settled("toMetaMaskSmartAccount", "ok"))
          /\ pcSend' = "name"
          /\ UNCHANGED <<loading, bundlerPool>>
       \/ \E e \in Throws("toMetaMaskSmartAccount") :
             SendCatch("toMetaMaskSmartAccount", e)
    /\ UNCHANGED <<recipient, amount, accountInfo, walletClient, isConnected,
                   hasEthereum, walletAccount, signerCap, pcConnect, pcSetup, su, codec, tokenNonces>>

\* SendTokenRead with a rejected read swallowed: signPermit goes on.
SendTokenReadIgnoringFailure(call, next) ==
    /\ pcSend = call
    /\ \/ /\ tx' = IF call = "nonces"
                   THEN [tx EXCEPT !.permitOwner = tx.smartAccount,
                                   !.nonce = TokenNonce(tx.smartAccount)]
                   ELSE tx
          /\ calls' = Append(calls, Settled(call, "ok"))
       \/ /\ calls' = Append(calls, Settled(call, "fail"))
          /\ UNCHANGED tx
    /\ pcSend' = next
    /\ UNCHANGED <<loading, status, logs, bundlerPool>>
    /\ UNCHANGED <<recipient, amount, accountInfo, walletClient, isConnected,
                   hasEthereum, walletAccount, signerCap, pcConnect, pcSetup, su,
                   codec, tokenNonces>>

\* A token read of signPermit settles and the next await is reached.
SendTokenRead(call, next) ==
    /\ pcSend = call
    /\ \/ /\ tx' = IF call = "nonces"
                   THEN [tx EXCEPT !.permitOwner = tx.smartAccount,
                                   !.nonce = TokenNonce(tx.smartAccount)]
                   ELSE tx
          /\ calls' = Append(calls, Settled(call, "ok"))
          /\ pcSend' = next
          /\ UNCHANGED <<loading, status, logs, bundlerPool>>
       \/ \E e \in Throws(call) : SendCatch(call, e)
    /\ UNCHANGED <<recipient, amount, accountInfo, walletClient, isConnected,
                   hasEthereum, walletAccount, signerCap, pcConnect, pcSetup, su, codec, tokenNonces>>

\* await token.read.name() (line 233)
SendReadName == SendTokenRead("name", "version")

\* SendReadVersion with the owner's nonce not read: signing comes next.
SendReadVersionSkippingNonces == SendTokenRead("version", "signTypedData")

\* await token.read.version() (line 234)
SendReadVersion == SendTokenRead("version", "nonces")

\* await token.read.nonces([account.address]) (line 243)
SendReadNonces == SendTokenRead("nonces", "signTypedData")

\* signPermit returned sig: lines 323-370, up to the call of sendUserOperation.
SendAfterPermit(sig) ==
    /\ tx' = [tx EXCEPT !.permitSignature = Some(sig),
                        !.paymasterData =
                            Some(EncodePaymasterData(0, USDC_ADDRESS, permitAmount, sig))]
    /\ logs' = addLog(addLog(addLog(addLog(addLog(addLog(addLog(logs,
                  "success", <<"Permit signature created">>),
                  "info", <<"Encoding paymaster data">>),
                  "success", <<"Paymaster configured: ", "PAYMASTER_V08_ADDRESS">>),
                  "info", <<"Creating bundler client with Pimlico">>),
                  "success", <<"Bundler client created">>),
                  "info", <<"Submitting user operation to bundler">>),
                  "info", <<"Transferring ", tx.amount, " USDC to ", tx.recipient>>)
    /\ status' = updateStatus("info", <<"Sending user operation...">>)
    /\ calls' = calls \o <<Settled("signTypedData", "ok"),
                           Settled("sendUserOperation", "call")>>
    /\ pcSend' = "estimateFeesPerGas"
    /\ UNCHANGED <<loading, bundlerPool>>

\* SendSignTypedData with a rejected signing request swallowed: an empty
\* signature stands in for the permit.
SendSignTypedDataSwallowingFailure ==
    /\ pcSend = "signTypedData"
    /\ \/ /\ signerCap = "direct"
          /\ \E sig \in Signatures : SendAfterPermit(sig)
       \/ /\ signerCap = "direct"
          /\ \E e \in Throws("signTypedData") : SendCatch("signTypedData", e)
       \/ /\ signerCap = "delegated"
          /\ SendAfterPermit(<<>>)
    /\ UNCHANGED <<recipient, amount, accountInfo, walletClient, isConnected,
                   hasEthereum, walletAccount, signerCap, pcConnect, pcSetup, su,
                   codec, tokenNonces>>

\* await account.signTypedData(...) settles (line 264)
SendSignTypedData ==
    /\ pcSend = "signTypedData"
    /\ \/ /\ signerCap = "direct"
          /\ \E sig \in Signatures : SendAfterPermit(sig)
       \/ /\ signerCap = "direct"
          /\ \E e \in Throws("signTypedData") : SendCatch("signTypedData", e)
       \/ /\ signerCap = "delegated"
          /\ SendCatch("signTypedData", AccountNotFound)
    /\ UNCHANGED <<recipient, amount, accountInfo, walletClient, isConnected,
                   hasEthereum, walletAccount, signerCap, pcConnect, pcSetup, su, codec, tokenNonces>>

\* sendUserOperation invokes the estimateFeesPerGas callback (lines 351-353)
SendEstimateFeesPerGas ==
    /\ pcSend = "estimateFeesPerGas"
    /\ logs' = addLog(logs, "info", <<"Fetching gas prices from Pimlico">>)
    /\ pcSend' = "pimlico_getUserOperationGasPrice"
    /\ UNCHANGED <<recipient, amount, loading, status, accountInfo, walletClient,
                   isConnected, hasEthereum, walletAccount, signerCap, bundlerPool,
                   pcConnect, pcSetup, su, tx, calls, codec, tokenNonces>>

\* SendGasPrice with a locally computed fee used when the oracle query fails.
SendGasPriceWithFallback ==
    /\ pcSend = "pimlico_getUserOperationGasPrice"
    /\ \/ /\ tx' = [tx EXCEPT !.fees = "standard"]
          /\ calls' = Append(calls, Settled("pimlico_getUserOperationGasPrice", "ok"))
       \/ /\ tx' = [tx EXCEPT !.fees = "local"]
          /\ calls' = Append(calls, Settled("pimlico_getUserOperationGasPrice", "fail"))
    /\ pcSend' = "getPaymasterData"
    /\ UNCHANGED <<loading, status, logs, bundlerPool>>
    /\ UNCHANGED <<recipient, amount, accountInfo, walletClient, isConnected,
                   hasEthereum, walletAccount, signerCap, pcConnect, pcSetup, su,
                   codec, tokenNonces>>

\* await bundlerClient.request({method: 'pimlico_getUserOperationGasPrice'})
\* settles (lines 353-359)
SendGasPrice ==
    /\ pcSend = "pimlico_getUserOperationGasPrice"
    /\ \/ /\ tx' = [tx EXCEPT !.fees = "standard"]
          /\ calls' = Append(calls, Settled("pimlico_getUserOperationGasPrice", "ok"))
          /\ pcSend' = "getPaymasterData"
          /\ UNCHANGED <<loading, status, logs, bundlerPool>>
       \/ \E e \in Throws("pimlico_getUserOperationGasPrice") :
             SendCatch("pimlico_getUserOperationGasPrice", e)
    /\ UNCHANGED <<recipient, amount, accountInfo, walletClient, isConnected,
                   hasEthereum, walletAccount, signerCap, pcConnect, pcSetup, su, codec, tokenNonces>>

\* sendUserOperation invokes paymaster.getPaymasterData (lines 332-340) and has
\* the operation to submit.
SendGetPaymasterData ==
    /\ pcSend = "getPaymasterData"
    /\ tx' = [tx EXCEPT !.userOp =
                 Some([sender |-> tx.smartAccount,
                       recipient |-> tx.recipient,
                       paymasterData |-> Val(tx.paymasterData),
                       fees |-> tx.fees])]
    /\ pcSend' = "eth_sendUserOperation"
    /\ UNCHANGED <<recipient, amount, loading, status, logs, accountInfo,
                   walletClient, isConnected, hasEthereum, walletAccount, signerCap,
                   bundlerPool, pcConnect, pcSetup, su, calls, codec, tokenNonces>>

\* SendUserOperation submitting again after a rejection.
SendUserOperationWithRetry ==
    /\ pcSend = "eth_sendUserOperation"
    /\ \/ /\ Len(bundlerPool) < MaxPool
          /\ bundlerPool' = Append(bundlerPool, Len(bundlerPool) + 1)
          /\ tx' = [tx EXCEPT !.uoHash = Len(bundlerPool) + 1]
          /\ logs' = addLog(addLog(logs,
                        "success", <<"UserOperation submitted: ",
                                     ToString(Len(bundlerPool) + 1)>>),
                        "info", <<"Waiting for transaction confirmation...">>)
          /\ status' = updateStatus("info", <<"Waiting for confirmation... UserOp hash: ",
                                              ToString(Len(bundlerPool) + 1)>>)
          /\ calls' = Append(calls, Settled("eth_sendUserOperation", "ok"))
          /\ pcSend' = "waitForUserOperationReceipt"
          /\ UNCHANGED loading
       \/ /\ Len(calls) < 12
          /\ calls' = Append(calls, Settled("eth_sendUserOperation", "fail"))
          /\ UNCHANGED <<tx, logs, status, loading, bundlerPool, pcSend>>
    /\ UNCHANGED <<recipient, amount, accountInfo, walletClient, isConnected,
                   hasEthereum, walletAccount, signerCap, pcConnect, pcSetup, su,
                   codec, tokenNonces>>

\* await bundlerClient.sendUserOperation(...) settles (line 370): the bundler
\* took the operation and returned its hash, or rejected it.
SendUserOperation ==
    /\ pcSend = "eth_sendUserOperation"
    /\ \/ /\ Len(bundlerPool) < MaxPool
          /\ bundlerPool' = Append(bundlerPool, Len(bundlerPool) + 1)
          /\ tx' = [tx EXCEPT !.uoHash = Len(bundlerPool) + 1]
          /\ logs' = addLog(addLog(logs,
                        "success", <<"UserOperation submitted: ",
                                     ToString(Len(bundlerPool) + 1)>>),
                        "info", <<"Waiting for transaction confirmation...">>)
          /\ status' = updateStatus("info", <<"Waiting for confirmation... UserOp hash: ",
                                              ToString(Len(bundlerPool) + 1)>>)
          /\ calls' = Append(calls, Settled("eth_sendUserOperation", "ok"))
          /\ pcSend' = "waitForUserOperationReceipt"
          /\ UNCHANGED loading
       \/ \E e \in Throws("eth_sendUserOperation") :
             SendCatch("eth_sendUserOperation", e)
    /\ UNCHANGED <<recipient, amount, accountInfo, walletClient, isConnected,
                   hasEthereum, walletAccount, signerCap, pcConnect, pcSetup, su, codec, tokenNonces>>

\* await bundlerClient.waitForUserOperationReceipt({hash}) settles (line 385);
\* lines 387-395 and the finally block follow a receipt, whatever its flag.
SendWaitReceipt ==
    /\ pcSend = "waitForUserOperationReceipt"
    /\ \/ \E success \in BOOLEAN :
             /\ tx' = [NoTx EXCEPT !.uoHash = tx.uoHash,
                                   !.poolAtStart = tx.poolAtStart,
                                   !.receipt = Some([userOpHash |-> tx.uoHash,
                                                     success |-> success]),
                                   !.outcome = updateStatus("success",
                                       <<"Transaction successful! Hash: ",
                                         ToString(tx.uoHash)>>)]
             /\ logs' = addLog(addLog(addLog(addLog(logs,
                           "success", <<"Transaction confirmed!">>),
                           "success", <<"Transaction hash: ", ToString(tx.uoHash)>>),
                           "success", <<"Sent ", tx.amount, " USDC to ", tx.recipient>>),
                           "success", <<"Gas paid with USDC via paymaster">>)
             /\ status' = updateStatus("success", <<"Transaction successful! Hash: ",
                                                    ToString(tx.uoHash)>>)
             /\ loading' = FALSE
             /\ calls' = Append(calls, Settled("waitForUserOperationReceipt", "ok"))
             /\ pcSend' = "idle"
             /\ UNCHANGED bundlerPool
       \/ \E e \in Throws("waitForUserOperationReceipt") :
             SendCatch("waitForUserOperationReceipt", e)
    /\ UNCHANGED <<recipient, amount, accountInfo, walletClient, isConnected,
                   hasEthereum, walletAccount, signerCap, pcConnect, pcSetup, su, codec, tokenNonces>>

\* ------------------------------------------------------------------- Spec

Next ==
    \/ AccountsChanged
    \/ clearLogs
    \/ setRecipient
    \/ OtherSessionPermit
    \/ connectWallet
    \/ ConnectRequestAccounts
    \/ ConnectGetAddresses
    \/ setupAccount
    \/ SetupGetAddresses
    \/ SetupToSmartAccount
    \/ sendTransaction
    \/ SendGetAddresses
    \/ SendToSmartAccount
    \/ SendReadName
    \/ SendReadVersion
    \/ SendReadNonces
    \/ SendSignTypedData
    \/ SendEstimateFeesPerGas
    \/ SendGasPrice
    \/ SendGetPaymasterData
    \/ SendUserOperation
    \/ SendWaitReceipt

Spec == Init /\ [][Next]_vars

\* An awaited call of a handler in flight settles: it returns or it throws.
AwaitSettles ==
    \/ ConnectRequestAccounts
    \/ ConnectGetAddresses
    \/ SetupGetAddresses
    \/ SetupToSmartAccount
    \/ SendGetAddresses
    \/ SendToSmartAccount
    \/ SendReadName
    \/ SendReadVersion
    \/ SendReadNonces
    \/ SendSignTypedData
    \/ SendEstimateFeesPerGas
    \/ SendGasPrice
    \/ SendGetPaymasterData
    \/ SendUserOperation
    \/ SendWaitReceipt

\* The steps of this session: the clicks, the wallet's events and the
\* settling of the awaited calls.
NextLive ==
    \/ AccountsChanged
    \/ clearLogs
    \/ setRecipient
    \/ connectWallet
    \/ setupAccount
    \/ sendTransaction
    \/ AwaitSettles

\* The component when no awaited call stays pending for ever.
SpecLive == Init /\ [][NextLive]_vars /\ WF_vars(AwaitSettles)

\* ------------------------------- the handlers called with no wallet connected

\* No owner identity is there: no wallet is connected or no wallet client is set.
IdentityUnavailable == ~isConnected \/ walletClient = Null

\* The buttons of setupAccount and sendTransaction are disabled exactly while
\* no wallet is connected; here the handlers are called all the same.
SetupAccountCalledUnconnected ==
    /\ IdentityUnavailable
    /\ Len(logs) <= MaxLog + 1
    /\ SetupAccountCall

SendTransactionCalledUnconnected ==
    /\ IdentityUnavailable
    /\ Len(logs) <= MaxLog + 1
    /\ SendTransactionCall

\* The signer is the one the README reports: it cannot sign the permit, and
\* no attempt gets past signPermit.
InitDirect == Init /\ signerCap = "delegated"

NextDirect ==
    \/ AccountsChanged
    \/ clearLogs
    \/ setRecipient
    \/ OtherSessionPermit
    \/ connectWallet
    \/ ConnectRequestAccounts
    \/ ConnectGetAddresses
    \/ setupAccount
    \/ SetupGetAddresses
    \/ SetupToSmartAccount
    \/ sendTransaction
    \/ SendGetAddresses
    \/ SendToSmartAccount
    \/ SendReadName
    \/ SendReadVersion
    \/ SendReadNonces
    \/ SendSignTypedData
    \/ SetupAccountCalledUnconnected
    \/ SendTransactionCalledUnconnected

SpecDirect == InitDirect /\ [][NextDirect]_vars

\* ------------------------------------------- the payload encoder on its own

\* What a consumer of the payload reads back: byte 0 as the mode, bytes 1..20
\* as the token, bytes 21..52 as the big-endian amount, the rest as signature.
RECURSIVE DecodeUint(_)
DecodeUint(bytes) ==
    IF bytes = <<>> THEN 0
    ELSE 256 * DecodeUint(SubSeq(bytes, 1, Len(bytes) - 1)) + bytes[Len(bytes)]

DecodePaymasterData(p) ==
    [mode |-> p[1],
     token |-> SubSeq(p, 2, 21),
     amount |-> DecodeUint(SubSeq(p, 22, 53)),
     sig |-> SubSeq(p, 54, Len(p))]

CodecModes == {0, 255}
CodecTokens == {USDC_ADDRESS, PAYMASTER_V08_ADDRESS}
CodecAmounts == {0, 256, permitAmount}
CodecSigs == UNION {[1..n -> {0, 27}] : n \in 0..MaxSigLen}

CodecInputs == [mode : CodecModes, token : CodecTokens, amount : CodecAmounts,
                sig : CodecSigs]

InitCodec ==
    /\ ComponentInit
    /\ hasEthereum
    /\ signerCap = "direct"
    /\ \E a \in CodecInputs, b \in CodecInputs :
          codec = [pc |-> "inputs", a |-> Some(a), b |-> Some(b),
                   pa |-> Null, pb |-> Null, da |-> Null]

CodecEncode ==
    /\ codec.pc = "inputs"
    /\ LET a == Val(codec.a)
           b == Val(codec.b)
       IN codec' = [codec EXCEPT
                      !.pc = "encoded",
                      !.pa = Some(EncodePaymasterData(a.mode, a.token, a.amount, a.sig)),
                      !.pb = Some(EncodePaymasterData(b.mode, b.token, b.amount, b.sig))]
    /\ UNCHANGED <<uiVars, hasEthereum, walletAccount, signerCap, bundlerPool,
                   pcConnect, pcSetup, pcSend, su, tx, calls, tokenNonces>>

CodecDecode ==
    /\ codec.pc = "encoded"
    /\ codec' = [codec EXCEPT !.pc = "decoded",
                              !.da = Some(DecodePaymasterData(Val(codec.pa)))]
    /\ UNCHANGED <<uiVars, hasEthereum, walletAccount, signerCap, bundlerPool,
                   pcConnect, pcSetup, pcSend, su, tx, calls, tokenNonces>>

NextCodec == CodecEncode \/ CodecDecode

SpecCodec == InitCodec /\ [][NextCodec]_vars

\* ----------------------------------------------------------------- claims

\* The order in which a sendTransaction attempt settles its external calls.
CallOrder ==
    <<"getAddresses", "toMetaMaskSmartAccount", "name", "version", "nonces",
      "signTypedData", "sendUserOperation", "pimlico_getUserOperationGasPrice",
      "eth_sendUserOperation", "waitForUserOperationReceipt">>

SigningPcs == {"name", "version", "nonces", "signTypedData"}
SubmissionPcs == {"estimateFeesPerGas", "pimlico_getUserOperationGasPrice",
                  "getPaymasterData", "eth_sendUserOperation"}

CallIndices(call) == {i \in 1..Len(calls) : calls[i].call = call}
LastCall == calls[Len(calls)]
FailedAt(call) == calls # <<>> /\ LastCall = Settled(call, "fail")

\* C1: in every sendTransaction attempt the stages run strictly in the order
\* account resolution, permit signing, payload encoding, operation assembly,
\* submission, terminal outcome, each starting only after the previous one
\* succeeded: the calls settle in CallOrder with no failure before the last,
\* signing is awaited only with the account resolved, the payload exists only
\* with the permit signature it encodes, and sendUserOperation is in progress
\* only with the payload encoded.
C1_StagesInOrder ==
    /\ Len(calls) <= Len(CallOrder)
    /\ \A i \in 1..Len(calls) :
          /\ calls[i].call = CallOrder[i]
          /\ i < Len(calls) => calls[i].ev # "fail"
    /\ pcSend \in SigningPcs =>
          /\ tx.smartAccount # ""
          /\ tx.permitSignature = Null
          /\ tx.paymasterData = Null
    /\ tx.permitSignature # Null => tx.smartAccount # ""
    /\ tx.paymasterData # Null => tx.permitSignature # Null
    /\ pcSend \in SubmissionPcs \cup {"waitForUserOperationReceipt"} =>
          /\ tx.paymasterData # Null
          /\ CallIndices("sendUserOperation") # {}
    /\ CallIndices("sendUserOperation") # {} /\ pcSend # "idle" => tx.paymasterData # Null
    /\ tx.receipt # Null => Len(calls) = Len(CallOrder)

\* An attempt that ran every stage to a receipt.
C1_Witness ==
    /\ pcSend = "idle"
    /\ tx.receipt # Null
    /\ Len(calls) = Len(CallOrder)
    /\ LastCall = Settled("waitForUserOperationReceipt", "ok")

\* C2: a failure at any stage of a sendTransaction attempt ends the attempt at
\* once in a terminal failure state: the failed call is the last one the
\* attempt settles, the handler is back at rest with an error outcome for that
\* stage, and unless the failure is that of the receipt wait (the hash was
\* already returned) the bundler holds no operation of this attempt.
C2_FailureEndsAttempt ==
    \A i \in 1..Len(calls) :
        calls[i].ev = "fail" =>
            /\ i = Len(calls)
            /\ pcSend = "idle"
            /\ tx.failedStage = StageOf(calls[i].call)
            /\ tx.outcome # Null
            /\ Val(tx.outcome).type = "error"
            /\ tx.receipt = Null
            /\ calls[i].call # "waitForUserOperationReceipt" =>
                  /\ Len(bundlerPool) = tx.poolAtStart
                  /\ tx.uoHash = 0

\* An attempt that failed at the fee query, after signing and encoding.
C2_Witness ==
    /\ FailedAt("pimlico_getUserOperationGasPrice")
    /\ pcSend = "idle"
    /\ Len(bundlerPool) = tx.poolAtStart

\* C3: when the bundler reports a receipt for a submitted operation whose
\* on-chain execution failed, the attempt ends in the Reverted failure
\* outcome: no success status is reported for it.
C3_RevertedReportedAsFailure ==
    (tx.receipt # Null /\ ~Val(tx.receipt).success) =>
        /\ tx.outcome # Null
        /\ Val(tx.outcome).type = "error"

\* The lifecycle events in the order the specification fixes.
StageRank(entry) ==
    CASE entry.message[1] = "Connecting to MetaMask..." -> 1
      [] entry.message[1] = "Creating MetaMask smart account" -> 2
      [] entry.message[1] = "Creating EIP-2612 permit signature..." -> 3
      [] entry.message[1] = "Encoding paymaster data" -> 4
      [] entry.message[1] = "Fetching gas prices from Pimlico" -> 5
      [] entry.message[1] = "Submitting user operation to bundler" -> 6
      [] entry.message[1] = "Waiting for transaction confirmation..." -> 7
      [] entry.message[1] \in {"Transaction confirmed!", "Transaction failed: "} -> 8
      [] OTHER -> 0

\* C4: the lifecycle log of one attempt holds one event per pipeline stage in
\* the order connecting, resolving account, signing permit, encoding payload,
\* estimating fees, submitting, awaiting confirmation, confirmed/failed: the
\* stage events of the log are in strictly increasing rank (estimating fees
\* before submitting), and when the confirmed event is in the log the events
\* of all seven earlier stages are in it too.
C4_LifecycleLogOrder ==
    /\ \A i, j \in 1..Len(logs) :
          (i < j /\ StageRank(logs[i]) > 0 /\ StageRank(logs[j]) > 0) =>
              StageRank(logs[i]) < StageRank(logs[j])
    /\ (\E i \in 1..Len(logs) : logs[i].message[1] = "Transaction confirmed!") =>
          \A r \in 1..7 : \E i \in 1..Len(logs) : StageRank(logs[i]) = r

\* C5: with a signer that only supports delegated signing, the signing request
\* of an attempt is rejected and the attempt ends there: no permit signature
\* and no payload ever exist, sendUserOperation is never called, the bundler
\* gets nothing, the signing request is made once (no fallback to another
\* signer), and the failure is reported as the signer's error.
C5_DelegatedSignerFailsAtSigning ==
    signerCap = "delegated" =>
        /\ tx.permitSignature = Null
        /\ tx.paymasterData = Null
        /\ pcSend \notin SubmissionPcs \cup {"waitForUserOperationReceipt"}
        /\ CallIndices("sendUserOperation") = {}
        /\ bundlerPool = <<>>
        /\ Cardinality(CallIndices("signTypedData")) <= 1
        /\ \A i \in CallIndices("signTypedData") :
              /\ calls[i].ev = "fail"
              /\ i = Len(calls)
              /\ pcSend = "idle"
              /\ tx.failedStage = "signing"
              /\ tx.outcome = FailureStatus(AccountNotFound)

\* A delegated signer has rejected the signing request of an attempt.
C5_Witness ==
    /\ signerCap = "delegated"
    /\ FailedAt("signTypedData")
    /\ tx.outcome = FailureStatus(AccountNotFound)

\* The awaited calls of sendTransaction.
AwaitedCalls ==
    {"getAddresses", "toMetaMaskSmartAccount", "name", "version", "nonces",
     "signTypedData", "pimlico_getUserOperationGasPrice", "eth_sendUserOperation",
     "waitForUserOperationReceipt"}

\* The outcomes a failure of the call can be reported with.
OutcomesOf(call) ==
    {FailureStatus(e) :
        e \in Throws(call) \cup (IF call = "signTypedData" THEN {AccountNotFound} ELSE {})}

\* C6: every failure of an attempt is reported with the failing stage
\* identified: the outcome is set, is not a success, and is one that no
\* failure of another stage is reported with.
C6_FailureIdentifiesStage ==
    tx.failedStage # "" =>
        /\ tx.outcome # Null
        /\ Val(tx.outcome).type = "error"
        /\ \A c \in AwaitedCalls :
              tx.outcome \in OutcomesOf(c) => StageOf(c) = tx.failedStage

\* C7: within one attempt the user operation is submitted at most once: the
\* attempt calls sendUserOperation, signs and hands an operation to the
\* bundler at most once each, the bundler gains at most one operation, and
\* after a rejected submission the attempt is over with the rejection reported
\* and nothing of it in the bundler.
C7_AtMostOneSubmission ==
    /\ Cardinality(CallIndices("eth_sendUserOperation")) <= 1
    /\ Cardinality(CallIndices("sendUserOperation")) <= 1
    /\ Cardinality(CallIndices("signTypedData")) <= 1
    /\ Len(bundlerPool) <= tx.poolAtStart + 1
    /\ Len(bundlerPool) = tx.poolAtStart + 1 =>
          /\ tx.uoHash = Len(bundlerPool)
          /\ Settled("eth_sendUserOperation", "ok") \in {calls[i] : i \in 1..Len(calls)}
    /\ FailedAt("eth_sendUserOperation") =>
          /\ pcSend = "idle"
          /\ tx.failedStage = "submission"
          /\ tx.outcome \in OutcomesOf("eth_sendUserOperation")
          /\ Len(bundlerPool) = tx.poolAtStart

\* The bundler has rejected the submission of an attempt.
C7_Witness ==
    /\ FailedAt("eth_sendUserOperation")
    /\ pcSend = "idle"
    /\ tx.outcome = FailureStatus(Err(FailureMessage("eth_sendUserOperation")))

\* 10_000_000 = 0x989680 as a 32-byte big-endian word
PermitAmountWord ==
    <<0, 0, 0, 0, 0, 0, 0, 0, 0, 0, 0, 0, 0, 0, 0, 0,
      0, 0, 0, 0, 0, 0, 0, 0, 0, 0, 0, 0, 0, 152, 150, 128>>

\* C8: the paymaster payload of the send flow is exactly the 1-byte mode 0,
\* the 20 bytes of the USDC address, the 32-byte big-endian word of 10_000_000
\* and the signature bytes, in this order and with no length prefix, so that
\* its length is 1 + 20 + 32 + the signature's length; the operation handed to
\* the bundler carries this payload.
C8_PayloadLayout ==
    /\ tx.paymasterData # Null =>
          LET p == Val(tx.paymasterData)
              sig == Val(tx.permitSignature)
          IN /\ Len(p) = 1 + 20 + 32 + Len(sig)
             /\ p = <<0>> \o USDC_ADDRESS \o PermitAmountWord \o sig
    /\ tx.userOp # Null => Val(tx.userOp).paymasterData = Val(tx.paymasterData)

\* The payload of a two-byte signature is about to be submitted.
C8_Witness ==
    /\ pcSend = "eth_sendUserOperation"
    /\ tx.userOp # Null
    /\ Len(Val(tx.permitSignature)) = 2
    /\ Len(Val(tx.paymasterData)) = 55

\* C9: payload encoding is injective on {mode, token, amount} for a fixed
\* signature length, and reading byte 0 as the mode, bytes 1..20 as the token,
\* bytes 21..52 as the big-endian amount and the rest as the signature gives
\* back exactly what was encoded.
C9_InjectiveRoundTrip ==
    /\ codec.pc \in {"encoded", "decoded"} =>
          LET a == Val(codec.a)
              b == Val(codec.b)
          IN (Len(a.sig) = Len(b.sig) /\ codec.pa = codec.pb) =>
                 /\ a.mode = b.mode
                 /\ a.token = b.token
                 /\ a.amount = b.amount
    /\ codec.pc = "decoded" => Val(codec.da) = Val(codec.a)

\* Two inputs that differ only in the amount were encoded and the first was
\* read back.
C9_Witness ==
    /\ codec.pc = "decoded"
    /\ Val(codec.a).amount = 256
    /\ Val(codec.b).amount = permitAmount
    /\ Val(codec.a).mode = Val(codec.b).mode
    /\ Val(codec.a).token = Val(codec.b).token
    /\ Val(codec.a).sig = Val(codec.b).sig
    /\ Len(Val(codec.a).sig) = 1
    /\ codec.pa # codec.pb

\* C10: fee estimation is lazy: the gas-price oracle is queried only after
\* sendUserOperation has been called and before the operation is handed to the
\* bundler, which gets the oracle's fees; when the query fails no fallback fee
\* is used, nothing is submitted and the attempt ends in failure.
C10_LazyFeeEstimation ==
    /\ pcSend = "pimlico_getUserOperationGasPrice" => CallIndices("sendUserOperation") # {}
    /\ \A i \in CallIndices("pimlico_getUserOperationGasPrice") :
          \E j \in CallIndices("sendUserOperation") : j < i
    /\ pcSend \notin SubmissionPcs \cup {"waitForUserOperationReceipt"} => tx.fees = ""
    /\ CallIndices("sendUserOperation") = {} => tx.fees = ""
    /\ \A i \in CallIndices("eth_sendUserOperation") :
          \E j \in CallIndices("pimlico_getUserOperationGasPrice") :
              j < i /\ calls[j].ev = "ok"
    /\ tx.userOp # Null => Val(tx.userOp).fees = "standard"
    /\ FailedAt("pimlico_getUserOperationGasPrice") =>
          /\ pcSend = "idle"
          /\ tx.failedStage = "fee query"
          /\ tx.outcome \in OutcomesOf("pimlico_getUserOperationGasPrice")
          /\ Len(bundlerPool) = tx.poolAtStart
          /\ tx.userOp = Null

\* The oracle query of an attempt has failed.
C10_Witness ==
    /\ FailedAt("pimlico_getUserOperationGasPrice")
    /\ tx.outcome = FailureStatus(NonError)
    /\ tx.failedStage = "fee query"

\* C11: when an attempt hands its operation to the bundler, the nonce of the
\* permit it carries is the token contract's current nonce of the permit's
\* owner; the nonce was read in the attempt's own signing step for the address
\* in the permit's owner field, and an attempt starts with no permit of an
\* earlier one; also when another session of the owner acts between signing
\* and submission.
C11_NonceCurrentAtSubmission ==
    [][/\ (pcSend = "nonces" /\ pcSend' = "signTypedData") =>
              /\ tx'.permitOwner = tx.smartAccount
              /\ tx'.nonce = tokenNonces[tx.smartAccount]
       /\ (pcSend = "idle" /\ pcSend' # "idle") =>
              /\ tx'.permitSignature = Null
              /\ tx'.permitOwner = ""
              /\ tx'.nonce = -1
       /\ (pcSend = "eth_sendUserOperation" /\ pcSend' = "waitForUserOperationReceipt") =>
              /\ tx.permitSignature # Null
              /\ tx.permitOwner = tx.smartAccount
              /\ tx.nonce = tokenNonces[tx.permitOwner]]_vars

\* The outcome reported for a receipt wait that timed out.
OperationTimeout == FailureStatus(Err(FailureMessage("waitForUserOperationReceipt")))

\* The log entries that show the hash of a submitted operation.
HashEntries(l, hash) ==
    {i \in 1..Len(l) : l[i].message = <<"UserOperation submitted: ", ToString(hash)>>}

NothingStarted ==
    UNCHANGED <<loading, accountInfo, walletClient, isConnected, walletAccount,
                bundlerPool, pcConnect, pcSetup, pcSend, su, tx, calls, tokenNonces>>

\* C13: called with no owner identity (no wallet connected or no wallet
\* client), setupAccount and sendTransaction set an error status and return:
\* no pipeline stage runs, loading is not set, and the log entries and the
\* account information that are there are kept (one error entry is appended).
C13_IdentityUnavailableReturns ==
    [][/\ (IdentityUnavailable /\ SetupAccountCall) =>
              /\ status' = updateStatus("error", <<"Please connect MetaMask first">>)
              /\ logs' = Append(logs, [type |-> "error",
                                       message |-> <<"MetaMask wallet not connected">>])
              /\ NothingStarted
       /\ (IdentityUnavailable /\ SendTransactionCall) =>
              /\ status' = updateStatus("error",
                               <<"Please connect MetaMask and fill in all fields">>)
              /\ logs' = Append(logs, [type |-> "error",
                              message |-> <<"MetaMask connection and all fields are required">>])
              /\ NothingStarted]_vars

\* setupAccount was called with the wallet disconnected, account information
\* and a log entry being there: they are kept.
C13_Witness ==
    /\ IdentityUnavailable
    /\ status = updateStatus("error", <<"Please connect MetaMask first">>)
    /\ accountInfo # Null
    /\ Len(logs) = 2
    /\ logs[2].message = <<"MetaMask wallet not connected">>
    /\ pcSetup = "idle"
    /\ pcSend = "idle"

TokenReads == {"name", "version", "nonces"}

\* C15: signPermit asks for the signature only after the three token reads
\* (name, version, the owner's nonce) have all succeeded; when one of them
\* fails no signing request is made and the attempt fails.
C15_SignAfterReads ==
    /\ (pcSend = "signTypedData" \/ CallIndices("signTypedData") # {}) =>
          \A r \in TokenReads :
              \E i \in CallIndices(r) :
                  /\ calls[i].ev = "ok"
                  /\ \A j \in CallIndices("signTypedData") : i < j
    /\ pcSend = "signTypedData" => tx.nonce >= 0 /\ tx.permitOwner = tx.smartAccount
    /\ \A r \in TokenReads :
          FailedAt(r) =>
              /\ CallIndices("signTypedData") = {}
              /\ pcSend = "idle"
              /\ tx.permitSignature = Null
              /\ tx.failedStage = "chain read"
              /\ tx.outcome \in OutcomesOf(r)

\* The read of the owner's nonce has failed, after name and version were read.
C15_Witness ==
    /\ FailedAt("nonces")
    /\ Len(calls) = 5
    /\ CallIndices("signTypedData") = {}
    /\ pcSend = "idle"

\* l is an initial part of m.
IsPrefix(l, m) == Len(l) <= Len(m) /\ SubSeq(m, 1, Len(l)) = l

\* C16: while an attempt of setupAccount or sendTransaction is in flight, from
\* its first event to its terminal event, the log only grows at its end: no
\* step, the Clear control and wallet events included, removes, replaces or
\* reorders an entry the attempt has emitted.
C16_LogAppendOnly ==
    [][(pcSetup # "idle" \/ pcSend # "idle") => IsPrefix(logs, logs')]_vars

\* A handler is suspended at an awaited call.
InFlight == pcConnect # "idle" \/ pcSetup # "idle" \/ pcSend # "idle"

\* C17: provided every awaited call returns or throws, a started
\* connectWallet, setupAccount or sendTransaction ends and resets loading,
\* whatever the outcome; loading is set at every suspension point of a handler
\* in flight and is not set when none is in flight.
C17_LoadingReset ==
    /\ [](InFlight <=> loading)
    /\ (InFlight ~> (~InFlight /\ ~loading))

\* setupAccount has failed at account resolution and has reset loading.
C17_Witness ==
    /\ ~InFlight
    /\ ~loading
    /\ status = updateStatus("error",
                    <<"Error: ", FailureMessage("toMetaMaskSmartAccount")>>)

\* The handlers suspended at an awaited call.
HandlersInFlight ==
    {h \in {"connectWallet", "setupAccount", "sendTransaction"} :
        \/ h = "connectWallet" /\ pcConnect # "idle"
        \/ h = "setupAccount" /\ pcSetup # "idle"
        \/ h = "sendTransaction" /\ pcSend # "idle"}

\* C18: at most one of connectWallet, setupAccount and sendTransaction is in
\* flight at any time: while a handler is suspended at an awaited call the
\* three buttons are disabled through loading, so no other attempt starts
\* before the one in flight has reached its terminal outcome.
C18_OneInFlight ==
    /\ Cardinality(HandlersInFlight) <= 1
    /\ HandlersInFlight # {} =>
          /\ loading
          /\ ~ConnectButtonEnabled
          /\ ~SetupButtonEnabled
          /\ ~SendButtonEnabled

\* An attempt of sendTransaction waits for its receipt, in a state where
\* loading alone keeps the Setup and Send buttons disabled.
C18_Witness ==
    /\ HandlersInFlight = {"sendTransaction"}
    /\ pcSend = "waitForUserOperationReceipt"
    /\ isConnected
    /\ accountInfo # Null
    /\ loading

\* C19: account information is there only while the wallet is connected:
\* accountInfo is set only with isConnected true and a wallet client set, also
\* when the wallet reports an empty account list while setupAccount is
\* suspended at getAddresses or at account resolution.
C19_AccountInfoOnlyWhileConnected ==
    accountInfo # Null => (isConnected /\ walletClient # Null)

\* C20: when an attempt of sendTransaction resolves its smart account, the
\* owner and the account address it works with are the ones stored in
\* accountInfo by the last setupAccount, whatever wallet events (a change to
\* another account included) came between setupAccount and sendTransaction.
C20_SendUsesStoredAccount ==
    [][(/\ pcSend = "toMetaMaskSmartAccount"
        /\ pcSend' = "name"
        /\ accountInfo # Null) =>
           /\ tx'.owner = Val(accountInfo).ownerAddress
           /\ tx'.smartAccount = Val(accountInfo).address]_vars

====
